---- MODULE Spec2Model ----
(***************************************************************************)
(* Model of ConvleNetDeep.py: evaluate_lenet5.                             *)
(*                                                                         *)
(* Four parts of the function are modelled:                                *)
(*   - the feature standardization of the three partitions (l.190-199);    *)
(*   - the list of parameters fitted by gradient descent and the update    *)
(*     rule of train_model (l.358-382);                                    *)
(*   - the cost train_model minimizes, with its L2 penalty (l.330-337);    *)
(*   - the early-stopping training loop with its learning-rate schedule,   *)
(*     its records and the two tables it writes (l.389-485).               *)
(*                                                                         *)
(* Numbers.  Error rates and costs are integers in units of 1/10000 (an    *)
(* error of 0.4 is 4000).  The learning rate is an integer in units of     *)
(* 10^-9 (0.15 is 150000000), so that the schedule 0.1 * 0.9^k is exact    *)
(* for k <= 8.  A parameter value is a pair <<hi, lo>> standing for        *)
(* hi * 10^9 + lo of the same unit, with 0 <= lo < 10^9 (the sum of ten    *)
(* thousand steps does not fit a 32-bit integer).                          *)
(* Comparisons and sums are those of exact arithmetic.                     *)
(*                                                                         *)
(* Records.  epoch_val_list is the sequence of its rows                    *)
(* <<iter, epoch, error>>.  epoch_loss_list, which grows by one row per    *)
(* mini-batch, is kept run-length encoded: a sequence of runs              *)
(* [from, n, epoch, cost], each standing for the n consecutive rows        *)
(* <<from, epoch, cost>>, ..., <<from + n - 1, epoch, cost>>.  Rows gives  *)
(* the rows a sequence of runs stands for; the encoding loses nothing.     *)
(***************************************************************************)
EXTENDS Integers, Sequences, FiniteSets, TLC

VARIABLES
    \* ---- inputs of a run, fixed at the call
    n_epochs,             \* parameter n_epochs
    n_train_batches,      \* l.249/252: rows of the train partition // batch_size
    valid_errors,         \* the values a validation sweep (l.440-442) can yield
    test_errors,          \* the values a test sweep (l.461-465) can yield
    cost_ij,              \* the value train_model returns (l.432)
    grad,                 \* the gradient T.grad yields for a parameter (l.362)
    \* ---- feature standardization
    X_train_head,         \* X_train[:7500] (l.190), one feature column
    X_train_tail,         \* X_train[7500:50000] (l.192)
    test_set,             \* the test rows (l.186-187)
    data_pc,              \* "raw", "stats" (after l.196), "standardized" (after l.199)
    Xtr_rows, Xval_rows, Xte_rows,
    mean_train, stdv_train,
    \* ---- model parameters and learning rate
    param_value,          \* the value of each shared parameter tensor
    learning_rate,        \* the shared learning-rate scalar
    cost,                 \* the cost expression (l.337) at its last evaluation:
                          \* <<NLL term, penalty term>>, <<>> before any
    \* ---- training loop
    pc,                   \* "while", "for", "done"
    epoch, done_looping,
    range_pos,            \* next value of range(n_train_batches)
    minibatch_index, iter,
    patience, validation_frequency,
    best_validation_loss, best_iter, test_score,
    epoch_loss_list, epoch_val_list,
    file_cost, file_val,  \* the rows of epoc_cost.csv and epoc_val_error.csv
    test_log              \* history: one <<iter, error>> per sweep of the test partition

inputVars == <<n_epochs, n_train_batches, valid_errors, test_errors, cost_ij, grad>>
dataVars  == <<X_train_head, X_train_tail, test_set, data_pc, Xtr_rows, Xval_rows, Xte_rows, mean_train, stdv_train>>
loopVars  == <<param_value, learning_rate, pc, epoch, done_looping, range_pos,
               minibatch_index, iter, patience, validation_frequency,
               best_validation_loss, best_iter, test_score, epoch_loss_list,
               epoch_val_list, file_cost, file_val, test_log>>
costVars  == <<cost>>
vars == <<inputVars, dataVars, loopVars, costVars>>

----------------------------------------------------------------------------
\* Bounds of the model.
MaxEpochs     == 5       \* n_epochs of the short runs is in 0..MaxEpochs
MaxBatches    == 3       \* n_train_batches of the short runs is in 0..MaxBatches
SchedEpochs   == 26      \* n_epochs of the schedule runs is in 0..SchedEpochs
LongEpochs    == 5       \* n_epochs of the long runs
LongBatches   == 6000    \* n_train_batches of the long runs: above patience / 2,
MidBatches    == 2501    \*   or below it
MaxRows       == 2       \* rows of a partition in the standardization runs
MaxPixel      == 2       \* a raw feature value is in 0..MaxPixel
MaxWeight     == 1       \* a tensor of the cost runs is in 0..MaxWeight units

----------------------------------------------------------------------------
\* Arithmetic helpers.
Min(a, b) == IF a <= b THEN a ELSE b
Max(a, b) == IF a >= b THEN a ELSE b

RECURSIVE SeqSum(_)
SeqSum(s) == IF s = <<>> THEN 0 ELSE Head(s) + SeqSum(Tail(s))

RECURSIVE SeqSumSq(_)
SeqSumSq(s) == IF s = <<>> THEN 0 ELSE Head(s) * Head(s) + SeqSumSq(Tail(s))


RECURSIVE Gcd(_, _)
Gcd(a, b) == IF b = 0 THEN a ELSE Gcd(b, a % b)

Abs(a) == IF a < 0 THEN 0 - a ELSE a

\* The rational num/den (den > 0) in lowest terms, as a pair.
Rat(num, den) == LET g == Gcd(Abs(num), den) IN <<num \div g, den \div g>>

----------------------------------------------------------------------------
\* Feature standardization (one feature column; a partition is the sequence
\* of that column's raw values, one per row).

\* numpy mean(axis=0): sum / n.
mean(rows) == Rat(SeqSum(rows), Len(rows))

\* numpy std(axis=0), population form (ddof = 0).  The value is the square
\* root of the rational returned here: the model keeps std^2 exactly.
std(rows) == Rat(Len(rows) * SeqSumSq(rows) - SeqSum(rows) * SeqSum(rows),
                 Len(rows) * Len(rows))

\* (x - m) / s, kept as the exact centred value and the divisor it is
\* divided by.
standardize(rows, m, s) ==
    [i \in 1..Len(rows) |-> [centred |-> Rat(rows[i] * m[2] - m[1], m[2]),
                             divisor |-> s]]

\* l.195: the partition the mean is taken from.
MeanSource(tr, va, te) == tr

\* l.196: the partition the standard deviation is taken from.
StdSource(tr, va, te) == te

\* l.195-196
ComputeStats ==
    /\ data_pc = "raw"
    /\ mean_train' = mean(MeanSource(Xtr_rows, Xval_rows, Xte_rows))
    /\ stdv_train' = std(StdSource(Xtr_rows, Xval_rows, Xte_rows))
    /\ data_pc' = "stats"
    /\ UNCHANGED <<X_train_head, X_train_tail, test_set, Xtr_rows, Xval_rows,
                   Xte_rows, inputVars, loopVars, costVars>>

\* l.197-199
Standardize ==
    /\ data_pc = "stats"
    /\ Xtr_rows'  = standardize(Xtr_rows, mean_train, stdv_train)
    /\ Xval_rows' = standardize(Xval_rows, mean_train, stdv_train)
    /\ Xte_rows'  = standardize(Xte_rows, mean_train, stdv_train)
    /\ data_pc' = "standardized"
    /\ UNCHANGED <<X_train_head, X_train_tail, test_set, mean_train, stdv_train,
                   inputVars, loopVars, costVars>>

----------------------------------------------------------------------------
\* Model parameters and the optimizer step.

\* The shared tensors the five layers allocate (l.277-328; W and b of each).
AllParams == {"layer0.W", "layer0.b", "layer1.W", "layer1.b",
              "layer2conv.W", "layer2conv.b", "layer2.W", "layer2.b",
              "layer3.W", "layer3.b"}

Biases == {"layer0.b", "layer1.b", "layer2conv.b", "layer2.b", "layer3.b"}

\* l.359: the parameters fitted by gradient descent.
params == <<"layer3.W", "layer3.b", "layer2.W", "layer2.b",
            "layer1.W", "layer1.b", "layer0.W", "layer0.b">>

InList(x, list) == \E i \in 1..Len(list) : list[i] = x

\* Values at construction: biases are zero (l.94), a weight is a draw of
\* the seeded generator (l.85-91), here one unit.
initial_value == [p \in AllParams |-> IF p \in Biases THEN <<0, 0>> ELSE <<0, 1>>]

\* v - d for a value v = <<hi, lo>> and an integer d.
Base == 1000 * 1000 * 1000
Minus(v, d) == <<v[1] + ((v[2] - d) \div Base), (v[2] - d) % Base>>

\* l.369-372 and l.377: one call of train_model replaces every parameter of
\* the list by param - learning_rate * grad and leaves the others alone.
updates(pv, lr, g) ==
    [p \in AllParams |-> IF InList(p, params) THEN Minus(pv[p], lr * g) ELSE pv[p]]

----------------------------------------------------------------------------
\* The cost.

\* l.331: L2_reg = 0.01 is 1 / L2_reg_inverse.
L2_reg_inverse == 100

\* l.332-335: the tensors whose squares L2_sqr sums.
L2_terms == <<"layer2.W", "layer2conv.W", "layer3.W">>

\* (W ** 2).sum() of a tensor of value v = <<hi, lo>>, in squared units.
Sq(v) == (v[1] * Base + v[2]) * (v[1] * Base + v[2])

\* The sum of the squares of the tensors of a list.
RECURSIVE SumSq(_, _)
SumSq(list, pv) == IF list = <<>> THEN 0
                   ELSE Sq(pv[Head(list)]) + SumSq(Tail(list), pv)

\* l.332-335
L2_sqr(pv) == SumSq(L2_terms, pv)

\* l.337: negative_log_likelihood(y) + L2_reg * L2_sqr, kept as its two
\* terms; the penalty is an exact rational of squared units.
Cost(nll, pv) == <<nll, Rat(L2_sqr(pv), L2_reg_inverse)>>

\* Values the negative log-likelihood of a batch can take (ln 10, ln 2).
NLLs == {23026, 6931}

\* l.337, l.374-377: the cost is evaluated at the current parameters.
EvalCost ==
    /\ cost = <<>>
    /\ \E nll \in NLLs : cost' = Cost(nll, param_value)
    /\ UNCHANGED <<inputVars, dataVars, loopVars>>

----------------------------------------------------------------------------
\* Constants of the training loop.
initial_patience      == 10000      \* l.390
patience_increase     == 2          \* l.391
improvement_threshold == 995        \* l.393: 0.995, in thousandths
Thousand              == 1000
inf                   == 1000000    \* l.401: numpy.inf, above every error rate
reference_rate        == 150000000  \* l.125: learning_rate = 0.15
dropped_rate          == 100000000  \* l.415: 0.1
decay_floor           == 53144100   \* l.416: 0.1 * 0.9 ** 6
unbound               == 0 - 1      \* a name the code has not bound yet

\* l.395
ValidationFrequency(n) == Min(n, initial_patience \div 2)

\* l.412: the condition of the while loop.
WhileCond(e, n, d) == e < n /\ ~d

\* l.414-417: the learning rate after the schedule of the epoch that starts.
Schedule_floor_strict(e, lr) ==
    LET lr1 == IF e = 10 THEN dropped_rate ELSE lr
    IN  IF e >= 18 /\ lr1 > decay_floor THEN (lr1 * 9) \div 10 ELSE lr1
Schedule(e, lr) ==
    LET lr1 == IF e = 10 THEN dropped_rate ELSE lr
    IN  IF e >= 18 /\ lr1 >= decay_floor THEN (lr1 * 9) \div 10 ELSE lr1

\* fmt='%1.3f' of numpy.savetxt on a value in units of 1/10000: the nearest
\* multiple of 0.001 (the values of the model are never half-way).
fmt3f(x) == ((x + 5) \div 10) * 10

\* l.419-424: the rows savetxt writes for a list of rows.  The first two
\* columns are integers, which '%1.3f' prints exactly.
savetxt(list) == [i \in 1..Len(list) |-> <<list[i][1], list[i][2], fmt3f(list[i][3])>>]

\* The same for a list of runs: the rows written, as runs.
savetxt_runs(list) == [i \in 1..Len(list) |-> [list[i] EXCEPT !.cost = fmt3f(@)]]

\* The rows a list of runs stands for.
RunRows(r) == [j \in 1..r.n |-> <<r.from + j - 1, r.epoch, r.cost>>]
RECURSIVE Rows(_)
Rows(list) == IF list = <<>> THEN <<>>
              ELSE Rows(SubSeq(list, 1, Len(list) - 1)) \o RunRows(list[Len(list)])

\* The number of rows of a list of runs.
RECURSIVE RowCount(_)
RowCount(list) == IF list = <<>> THEN 0 ELSE Head(list).n + RowCount(Tail(list))

\* list.append(row), on runs: the row extends the last run when it follows
\* it, and starts a run otherwise.
AppendRow(list, it, e, c) ==
    LET k == Len(list)
    IN  IF k > 0 /\ list[k].epoch = e /\ list[k].cost = c /\ list[k].from + list[k].n = it
        THEN [list EXCEPT ![k].n = @ + 1]
        ELSE Append(list, [from |-> it, n |-> 1, epoch |-> e, cost |-> c])

\* l.418: whether the epoch that starts writes the two tables.
SaveDue(e) == e > 3

\* l.428
IterOf_epoch0(e, n, idx) == e * n + idx
IterOf(e, n, idx) == (e - 1) * n + idx

\* l.437
ValidationDue(it, vf) == (it + 1) % vf = 0

\* l.450
IsBest(v, best) == v < best

\* l.452-453: v < best * 0.995.
IsSignificant(v, best) == v * Thousand < best * improvement_threshold

\* l.454
ExtendedPatience_replace(p, it) == it * patience_increase
ExtendedPatience(p, it) == Max(p, it * patience_increase)

\* l.457: the best validation loss after a validation check.
BestAfter_last(v, best) == v
BestAfter(v, best) == IF IsBest(v, best) THEN v ELSE best

\* l.460-465: whether a validation check with error v sweeps the test set.
TestDue_always(v, best) == TRUE
TestDue(v, best) == IsBest(v, best)

\* l.471
StopDue_lt(p, it) == p < it
StopDue(p, it) == p <= it

\* l.434-435: the record list after a mini-batch.
LossAppend_skip_first(list, it, e, c) == IF it = 0 THEN list ELSE AppendRow(list, it, e, c)
LossAppend(list, it, e, c) == AppendRow(list, it, e, c)

----------------------------------------------------------------------------
\* The training loop.

\* l.412-424: the while condition holds; the epoch starts.
WhileEnter ==
    /\ pc = "while"
    /\ WhileCond(epoch, n_epochs, done_looping)
    /\ epoch' = epoch + 1
    /\ learning_rate' = Schedule(epoch + 1, learning_rate)
    /\ IF SaveDue(epoch + 1)
       THEN /\ file_cost' = savetxt_runs(epoch_loss_list)
            /\ file_val' = savetxt(epoch_val_list)
       ELSE UNCHANGED <<file_cost, file_val>>
    /\ range_pos' = 0
    /\ pc' = "for"
    /\ UNCHANGED <<inputVars, dataVars, costVars, param_value, done_looping, minibatch_index,
                   iter, patience, validation_frequency, best_validation_loss,
                   best_iter, test_score, epoch_loss_list, epoch_val_list, test_log>>

\* l.426-473: one mini-batch.
ForBody ==
    /\ pc = "for"
    /\ range_pos < n_train_batches
    /\ LET it == IterOf(epoch, n_train_batches, range_pos)
           best == best_validation_loss
       IN  /\ minibatch_index' = range_pos
           /\ iter' = it
           /\ param_value' = updates(param_value, learning_rate, grad)
           /\ epoch_loss_list' = LossAppend(epoch_loss_list, it, epoch, cost_ij)
           /\ IF ValidationDue(it, validation_frequency)
              THEN \E v \in valid_errors :
                     /\ epoch_val_list' = Append(epoch_val_list, <<it, epoch, v>>)
                     /\ patience' = IF IsBest(v, best) /\ IsSignificant(v, best)
                                    THEN ExtendedPatience(patience, it)
                                    ELSE patience
                     /\ best_validation_loss' = BestAfter(v, best)
                     /\ best_iter' = IF IsBest(v, best) THEN it ELSE best_iter
                     /\ IF TestDue(v, best)
                        THEN \E t \in test_errors :
                               /\ test_score' = t
                               /\ test_log' = Append(test_log, <<it, t>>)
                        ELSE UNCHANGED <<test_score, test_log>>
              ELSE UNCHANGED <<epoch_val_list, patience, best_validation_loss,
                               best_iter, test_score, test_log>>
           /\ IF StopDue(patience', it)
              THEN /\ done_looping' = TRUE
                   /\ pc' = "while"
                   /\ UNCHANGED range_pos
              ELSE /\ range_pos' = range_pos + 1
                   /\ UNCHANGED <<done_looping, pc>>
    /\ UNCHANGED <<inputVars, dataVars, costVars, learning_rate, epoch, validation_frequency,
                   file_cost, file_val>>

\* l.426: range(n_train_batches) is exhausted; back to the while condition.
ForExhausted ==
    /\ pc = "for"
    /\ range_pos >= n_train_batches
    /\ pc' = "while"
    /\ UNCHANGED <<inputVars, dataVars, costVars, param_value, learning_rate, epoch,
                   done_looping, range_pos, minibatch_index, iter, patience,
                   validation_frequency, best_validation_loss, best_iter, test_score,
                   epoch_loss_list, epoch_val_list, file_cost, file_val, test_log>>

\* l.412, l.475-498: the while condition fails; the records are aggregated
\* and plotted, which changes none of the state.
WhileExit ==
    /\ pc = "while"
    /\ ~WhileCond(epoch, n_epochs, done_looping)
    /\ pc' = "done"
    /\ UNCHANGED <<inputVars, dataVars, costVars, param_value, learning_rate, epoch,
                   done_looping, range_pos, minibatch_index, iter, patience,
                   validation_frequency, best_validation_loss, best_iter, test_score,
                   epoch_loss_list, epoch_val_list, file_cost, file_val, test_log>>

----------------------------------------------------------------------------
\* Inputs.

\* Error rates a validation sweep can yield: 0.4, 0.3992 (better than 0.4
\* by less than 0.5 %) and 0.1.
ValErrors == {4000, 3992, 1000}

\* Error rates a test sweep can yield.
TestErrors == {3000, 2000}

\* What train_model can do in a run: the cost it returns and the (non-zero)
\* gradient it computes.
TrainOutcomes == {[cost |-> 23026, grad |-> 1], [cost |-> 15004, grad |-> 0 - 2]}

\* The partitions of a column of at most MaxRows rows.
Columns == UNION {[1..k -> 0..MaxPixel] : k \in 1..MaxRows}

\* l.390-410 and the state the data preparation and the model construction
\* leave: everything but the inputs of the run.
LoopInit ==
    /\ param_value = initial_value
    /\ learning_rate = reference_rate
    /\ pc = "while"
    /\ epoch = 0
    /\ done_looping = FALSE
    /\ range_pos = unbound
    /\ minibatch_index = unbound
    /\ iter = unbound
    /\ patience = initial_patience
    /\ validation_frequency = ValidationFrequency(n_train_batches)
    /\ best_validation_loss = inf
    /\ best_iter = 0
    /\ test_score = 0
    /\ epoch_loss_list = <<>>
    /\ epoch_val_list = <<>>
    /\ file_cost = <<>>
    /\ file_val = <<>>
    /\ test_log = <<>>
    /\ cost = <<>>

\* One prepared dataset (the loop does not read it).
DataDone ==
    /\ X_train_head = <<1>>
    /\ X_train_tail = <<0, 2>>
    /\ test_set = <<1, 2>>
    /\ mean_train = mean(MeanSource(X_train_tail, X_train_head, test_set))
    /\ stdv_train = std(StdSource(X_train_tail, X_train_head, test_set))
    /\ Xtr_rows = standardize(X_train_tail, mean_train, stdv_train)
    /\ Xval_rows = standardize(X_train_head, mean_train, stdv_train)
    /\ Xte_rows = standardize(test_set, mean_train, stdv_train)
    /\ data_pc = "standardized"

TrainInputs ==
    \E o \in TrainOutcomes : cost_ij = o.cost /\ grad = o.grad

\* Short runs: every validation and test outcome at every check.
Init ==
    /\ n_epochs \in 0..MaxEpochs
    /\ n_train_batches \in 0..MaxBatches
    /\ valid_errors = ValErrors
    /\ test_errors = TestErrors
    /\ TrainInputs
    /\ DataDone
    /\ LoopInit

\* Schedule runs: many epochs of at most one mini-batch, on a dataset whose
\* validation and test errors do not move.
InitSched ==
    /\ n_epochs \in 0..SchedEpochs
    /\ n_train_batches \in 0..1
    /\ \E v \in ValErrors : valid_errors = {v}
    /\ \E t \in TestErrors : test_errors = {t}
    /\ TrainInputs
    /\ DataDone
    /\ LoopInit

\* Long runs: enough mini-batches to reach the initial patience, with every
\* validation outcome at every check, one test error and one outcome of
\* train_model.
InitLong ==
    /\ n_epochs = LongEpochs
    /\ n_train_batches \in {LongBatches, MidBatches}
    /\ valid_errors = ValErrors
    /\ test_errors = {2000}
    /\ cost_ij = 23026
    /\ grad = 1
    /\ DataDone
    /\ LoopInit

\* Standardization runs: the data preparation alone, on every small dataset.
InitData ==
    /\ n_epochs = 0
    /\ n_train_batches = 0
    /\ valid_errors = ValErrors
    /\ test_errors = TestErrors
    /\ cost_ij = 0
    /\ grad = 1
    /\ X_train_head \in Columns
    /\ X_train_tail \in Columns
    /\ test_set \in Columns
    /\ Xval_rows = X_train_head
    /\ Xtr_rows = X_train_tail
    /\ Xte_rows = test_set
    /\ mean_train = unbound
    /\ stdv_train = unbound
    /\ data_pc = "raw"
    /\ LoopInit

\* Cost runs: the cost alone, at every small value of the ten tensors.
InitCost ==
    /\ n_epochs = 0
    /\ n_train_batches = 0
    /\ valid_errors = ValErrors
    /\ test_errors = TestErrors
    /\ cost_ij = 0
    /\ grad = 1
    /\ DataDone
    /\ param_value \in [AllParams -> {<<0, w>> : w \in 0..MaxWeight}]
    /\ learning_rate = reference_rate
    /\ pc = "while"
    /\ epoch = 0
    /\ done_looping = FALSE
    /\ range_pos = unbound
    /\ minibatch_index = unbound
    /\ iter = unbound
    /\ patience = initial_patience
    /\ validation_frequency = ValidationFrequency(n_train_batches)
    /\ best_validation_loss = inf
    /\ best_iter = 0
    /\ test_score = 0
    /\ epoch_loss_list = <<>>
    /\ epoch_val_list = <<>>
    /\ file_cost = <<>>
    /\ file_val = <<>>
    /\ test_log = <<>>
    /\ cost = <<>>

Next == WhileEnter \/ ForBody \/ ForExhausted \/ WhileExit
NextData == ComputeStats \/ Standardize

Spec      == Init /\ [][Next]_vars
SpecSched == InitSched /\ [][Next]_vars
SpecData  == InitData /\ [][NextData]_vars
SpecCost  == InitCost /\ [][EvalCost]_vars

\* Short and long runs together.
InitAll == Init \/ InitLong
SpecAll == InitAll /\ [][Next]_vars

\* The loop is sequential code: a step that is enabled is taken.
FairSpecAll == SpecAll /\ WF_vars(Next)

----------------------------------------------------------------------------
\* Properties.

\* The smallest validation error of a record list, inf when it is empty.
MinError(list) ==
    IF list = <<>> THEN inf
    ELSE CHOOSE m \in {list[k][3] : k \in 1..Len(list)} :
             \A k \in 1..Len(list) : m <= list[k][3]

\* The k-th validation check of a record list is strictly below every
\* earlier one (and so below the best loss of that moment).
IsRecord(list, k) == \A j \in 1..(k - 1) : list[k][3] < list[j][3]

\* A step that trains a mini-batch.
Trains == RowCount(epoch_loss_list') = RowCount(epoch_loss_list) + 1

\* A step that makes a validation check; its error.
Validates == Len(epoch_val_list') = Len(epoch_val_list) + 1
Checked == epoch_val_list'[Len(epoch_val_list')][3]

\* C1: the training loop terminates, never starts an epoch beyond n_epochs,
\* and once a mini-batch with iteration index i has finished with
\* patience <= i no further mini-batch is trained and no further epoch is
\* started.
C1_LoopTerminates ==
    /\ [](epoch <= n_epochs)
    /\ [][(iter # unbound /\ patience <= iter)
            => (epoch_loss_list' = epoch_loss_list /\ epoch' = epoch)]_vars
    /\ <>(pc = "done")

\* A run stopped by patience in the middle of an epoch.
C1_Witness ==
    /\ pc = "done"
    /\ done_looping
    /\ patience <= iter
    /\ minibatch_index < n_train_batches - 1
    /\ epoch <= n_epochs

\* C2: in every reachable state best_validation_loss is the minimum of the
\* validation errors recorded so far, inf while none is recorded.
C2_BestIsMinimum == best_validation_loss = MinError(epoch_val_list)

\* A finished run whose last validation error is above the best one.
C2_Witness ==
    /\ pc = "done"
    /\ Len(epoch_val_list) >= 2
    /\ epoch_val_list[Len(epoch_val_list)][3] > best_validation_loss
    /\ epoch_val_list[1][3] > best_validation_loss

\* C3: the test partition is swept exactly once at each validation check
\* whose error is strictly below the best loss of that moment and at no
\* other mini-batch, and best_iter and test_score are the iteration and the
\* test error of the last such sweep.
C3_TestOncePerImprovement ==
    LET rec == {k \in 1..Len(epoch_val_list) : IsRecord(epoch_val_list, k)}
        n == Len(test_log)
    IN  /\ n = Cardinality(rec)
        /\ {test_log[j][1] : j \in 1..n} = {epoch_val_list[k][1] : k \in rec}
        /\ \A j \in 1..(n - 1) : test_log[j][1] < test_log[j + 1][1]
        /\ IF n = 0
           THEN best_iter = 0 /\ test_score = 0
           ELSE best_iter = test_log[n][1] /\ test_score = test_log[n][2]

\* A finished run with two improving checks and at least one that is not.
C3_Witness ==
    /\ pc = "done"
    /\ Len(test_log) = 2
    /\ Len(epoch_val_list) >= 4
    /\ test_score # test_log[1][2]

\* 0.1 * 0.9^k in the unit of the learning rate.
RECURSIVE Decayed(_)
Decayed(k) == IF k <= 0 THEN dropped_rate ELSE (Decayed(k - 1) * 9) \div 10

\* C4, as stated: started at 0.15, the rate of epoch e is 0.15 for e < 10,
\* 0.1 for 10 <= e < 18, 0.1 * 0.9^(e-17) from epoch 18 on, and it is never
\* below 0.1 * 0.9^6.
C4_AsStated ==
    (epoch >= 1) =>
        /\ (epoch < 10 => learning_rate = reference_rate)
        /\ (epoch >= 10 /\ epoch < 18 => learning_rate = dropped_rate)
        /\ (epoch >= 18 /\ epoch <= 25 => learning_rate = Decayed(epoch - 17))
        /\ learning_rate >= decay_floor

\* C4, amended: started at 0.15, the rate of epoch e is 0.15 for e < 10,
\* 0.1 for 10 <= e < 18, 0.1 * 0.9^(e-17) for 18 <= e <= 24 and
\* 0.1 * 0.9^7 from epoch 24 on; it is never below 0.1 * 0.9^7.
C4_Schedule ==
    (epoch >= 1) =>
        /\ (epoch < 10 => learning_rate = reference_rate)
        /\ (epoch >= 10 /\ epoch < 18 => learning_rate = dropped_rate)
        /\ (epoch >= 18 => learning_rate = Decayed(Min(epoch, 24) - 17))
        /\ learning_rate >= Decayed(7)

\* A mini-batch trained in epoch 25 at the rate 0.1 * 0.9^7.
C4_Witness ==
    /\ epoch = 25
    /\ RowCount(epoch_loss_list) = 25
    /\ learning_rate = Decayed(7)
    /\ learning_rate < decay_floor

\* C5: the mean and the standard deviation of the standardization are
\* those of the training partition, and that pair standardizes the three
\* partitions.
C5_TrainingStatistics ==
    LET m == mean(X_train_tail)
        s == std(X_train_tail)
    IN  /\ (data_pc # "raw" => mean_train = m /\ stdv_train = s)
        /\ (data_pc = "standardized" =>
               /\ Xtr_rows = standardize(X_train_tail, m, s)
               /\ Xval_rows = standardize(X_train_head, m, s)
               /\ Xte_rows = standardize(test_set, m, s))

\* C6: every call of train_model replaces each of the ten parameter
\* tensors by param - learning_rate * grad.
C6_AllParamsUpdated ==
    [][Trains => \A p \in AllParams :
                   param_value'[p] = Minus(param_value[p], learning_rate * grad)]_vars

\* C7: the training-loss record gets one entry per mini-batch processed and
\* none is removed or rewritten; a run the patience stop does not cut short
\* ends with n_epochs * n_train_batches entries, and no run of at most
\* initial_patience mini-batches is cut short.
C7_LossRecord ==
    /\ [](/\ RowCount(epoch_loss_list) = iter + 1
          /\ (iter # unbound =>
                LET last == epoch_loss_list[Len(epoch_loss_list)]
                IN  last.from + last.n - 1 = iter /\ last.cost = cost_ij)
          /\ (pc = "done" /\ ~done_looping =>
                RowCount(epoch_loss_list) = n_epochs * n_train_batches)
          /\ (n_epochs * n_train_batches <= initial_patience => ~done_looping))
    /\ [][\/ epoch_loss_list' = epoch_loss_list
          \/ \E it \in {iter'}, e \in {epoch'}, c \in {cost_ij} :
                epoch_loss_list' = AppendRow(epoch_loss_list, it, e, c)]_vars

\* The 2-epoch, 2-batch run, finished.
C7_Witness ==
    /\ pc = "done"
    /\ n_epochs = 2
    /\ n_train_batches = 2
    /\ Len(Rows(epoch_loss_list)) = 4
    /\ ~done_looping

\* C8: the iteration index of a mini-batch is
\* (epoch - 1) * n_train_batches + minibatch_index, and the indices of the
\* mini-batches processed are 0, 1, 2, ... in this order.
C8_IterationIndex ==
    LET rows == Rows(epoch_loss_list)
    IN  /\ Len(rows) = iter + 1
        /\ \A k \in 1..Len(rows) :
              LET it == rows[k][1]
                  e  == rows[k][2]
              IN  /\ it = k - 1
                  /\ it - (e - 1) * n_train_batches >= 0
                  /\ it - (e - 1) * n_train_batches < n_train_batches
        /\ (iter # unbound =>
              iter = (rows[iter + 1][2] - 1) * n_train_batches + minibatch_index)

\* The first mini-batch of a third epoch has been processed.
C8_Witness ==
    /\ epoch = 3
    /\ minibatch_index = 0
    /\ n_train_batches = 2
    /\ iter = 4

\* C9: once a run of more than 3 epochs has finished, the two tables hold
\* a row for every training iteration and for every validation check.
C9_TablesComplete ==
    (pc = "done" /\ epoch > 3) =>
        /\ Rows(file_cost) = savetxt(Rows(epoch_loss_list))
        /\ file_val = savetxt(epoch_val_list)

\* C10: patience starts at initial_patience, never decreases, and changes
\* only at a validation check whose error is below 0.995 times the best
\* loss before the check, where it becomes max(patience, 2 * iter); such a
\* check at an iteration above 0 does not stop the loop.
C10_Patience ==
    /\ patience = initial_patience
    /\ [][/\ patience' >= patience
          /\ (patience' # patience =>
                Validates /\ Checked * 1000 < best_validation_loss * 995)
          /\ (Validates /\ Checked * 1000 < best_validation_loss * 995 =>
                /\ patience' = Max(patience, 2 * iter')
                /\ (iter' > 0 => done_looping' = done_looping))]_vars

\* A run in which a strict improvement left the patience alone, a later
\* significant one raised it to twice its iteration, and training went on
\* beyond the initial patience.
C10_Witness ==
    /\ patience > initial_patience
    /\ iter > initial_patience
    /\ ~done_looping
    /\ \E k \in 1..Len(epoch_val_list) : patience = 2 * epoch_val_list[k][1]
    /\ \E j \in 1..(Len(epoch_val_list) - 1) :
          /\ epoch_val_list[j + 1][3] < epoch_val_list[j][3]
          /\ epoch_val_list[j + 1][3] * 1000 >= epoch_val_list[j][3] * 995

\* C11: the training loss is the negative log-likelihood plus 0.01 times
\* the sum of the squares of the weight tensor of every layer (the three
\* convolution blocks, the hidden layer and the classifier), and of no bias.
C11_PenaltyOverAllWeights ==
    (cost # <<>>) =>
        /\ cost[1] \in NLLs
        /\ cost[2] = Rat(Sq(param_value["layer0.W"]) + Sq(param_value["layer1.W"])
                         + Sq(param_value["layer2conv.W"]) + Sq(param_value["layer2.W"])
                         + Sq(param_value["layer3.W"]),
                         100)

====
